---- MODULE Spec2Model ----
(***************************************************************************)
(* JSONkeeper: the Activity Stream OrderedCollection (a doubly linked list *)
(* of OrderedCollectionPages kept in end-time order), its write-through    *)
(* persistence and its reconstruction from the stored records.             *)
(***************************************************************************)
EXTENDS Integers, Sequences, FiniteSets, TLC

\* ------------------------------------------------------------------ bounds
MaxPages == 3
MaxTime == 3

\* --------------------------------------------------------------- constants
\* datetime.datetime.fromtimestamp(0): end time of a page without activities
Epoch == 0
\* JSON-LD id of the collection (server URL + collection route)
ColLdId == 0

PageIds == 1..MaxPages
Times == 1..MaxTime

\* ------------------------------------------------------- values and fields
\* A member variable holding a page: None, a page object, or (after
\* from_json) the bare id string of a page.
None == [k |-> "none", v |-> 0]
Obj(o) == [k |-> "obj", v |-> o]
Str(i) == [k |-> "str", v |-> i]

\* Python truthiness of such a member (None is falsy, objects and non-empty
\* strings are truthy).
Truthy(r) == r.k # "none"

\* A value under a key of the JSON dict: key absent, JSON null, a
\* {type: OrderedCollectionPage, id: i} reference, or a plain id string.
Absent == [k |-> "absent", v |-> 0]
Null == [k |-> "null", v |-> 0]
Ref(i) == [k |-> "ref", v |-> i]
IdStr(i) == [k |-> "id", v |-> i]

\* dict.get(key) truthiness: absent and null are falsy.
DicTruthy(d) == d.k \in {"ref", "id"}

\* ActivityBuilder._build_basic and build_create/update/delete/reference/
\* offer: obj and origin are document ids (0: none, or a resource that is
\* not a stored document)
Activity(type, t, obj, origin) ==
    [type |-> type, endTime |-> t, object |-> obj, origin |-> origin]

\* ASOrderedCollectionPage.__init__
NewPageObj(ldid) ==
    [dic |-> [id |-> ldid, partOf |-> Null, prev |-> Absent, next |-> Absent,
              orderedItems |-> <<>>],
     part_of |-> None, prev |-> None, next |-> None]

\* ASOrderedCollection.__init__
NewColObj(ldid) ==
    [dic |-> [id |-> ldid, totalItems |-> 0, first |-> Null, last |-> Null],
     total_items |-> 0, first |-> None, last |-> None, page_map |-> << >>]

\* The records of the stream in the document table: the collection record
\* (absent = empty sequence) and the page records by storage id.
EmptyStore == [coll |-> << >>, pages |-> << >>]

\* A heap: the collection object, the page objects by storage id, the
\* session's view of the document table, whether an exception was raised,
\* the number of comparisons of the last insertion scan and the cursor (cur)
\* it ended on.
NewHeap(c, st) ==
    [col |-> c, pages |-> << >>, store |-> st, err |-> FALSE, steps |-> 0,
     cursor |-> None]

\* ----------------------------------------------------------- ASWrapper.store
\* store() taking the insert branch whether or not the row exists
StorePage_AlwaysInsert(H, o) ==
    [H EXCEPT !.store.pages =
        LET n == Cardinality(DOMAIN H.store.pages)
            fresh == CHOOSE i \in 1..(2 * n + 1) :
                         i \notin DOMAIN H.store.pages /\ (n = 0 => i = o)
        IN  H.store.pages @@ (fresh :> H.pages[o].dic)]

\* Upsert of the object's JSON under its storage id.
StorePage(H, o) ==
    [H EXCEPT !.store.pages =
        IF o \in DOMAIN H.store.pages
        THEN [H.store.pages EXCEPT ![o] = H.pages[o].dic]
        ELSE H.store.pages @@ (o :> H.pages[o].dic)]

StoreCol(H) == [H EXCEPT !.store.coll = << H.col.dic >>]

\* ------------------------------------------------- ASOrderedCollectionPage
SetPartOf(H, o) ==
    StorePage([H EXCEPT !.pages[o].part_of = [k |-> "col", v |-> 0],
                        !.pages[o].dic.partOf = IdStr(H.col.dic.id)], o)

UnsetPartOf(H, o) ==
    StorePage([H EXCEPT !.pages[o].part_of = None,
                        !.pages[o].dic.partOf = Null], o)

UnsetPrev(H, o) ==
    StorePage([H EXCEPT !.pages[o].prev = None,
                        !.pages[o].dic.prev = Null], o)

UnsetNext(H, o) ==
    StorePage([H EXCEPT !.pages[o].next = None,
                        !.pages[o].dic.next = Null], o)

\* other is a member value (None or a page object)
SetPrev(H, o, other) ==
    StorePage([H EXCEPT !.pages[o].prev = other,
                        !.pages[o].dic.prev =
                            IF other.k = "obj"
                            THEN Ref(H.pages[other.v].dic.id)
                            ELSE Absent], o)

\* set_next without the call of store
SetNext_NoStore(H, o, other) ==
    [H EXCEPT !.pages[o].next = other,
              !.pages[o].dic.next =
                  IF other.k = "obj"
                  THEN Ref(H.pages[other.v].dic.id)
                  ELSE Absent]

SetNext(H, o, other) ==
    StorePage([H EXCEPT !.pages[o].next = other,
                        !.pages[o].dic.next =
                            IF other.k = "obj"
                            THEN Ref(H.pages[other.v].dic.id)
                            ELSE Absent], o)

MaxOf(S) == CHOOSE x \in S : \A y \in S : y <= x

EndTimeOfDic(d) ==
    MaxOf({Epoch} \cup {d.orderedItems[i].endTime : i \in DOMAIN d.orderedItems})

EndTime(H, o) == EndTimeOfDic(H.pages[o].dic)

After(H, o, other) == EndTime(H, o) > EndTime(H, other)

\* ASOrderedCollectionPage.add putting the activity in front
PageAdd_Prepend(H, o, act) ==
    StorePage([H EXCEPT !.pages[o].dic.orderedItems = << act >> \o @], o)

\* ASOrderedCollectionPage.add
PageAdd(H, o, act) ==
    StorePage([H EXCEPT !.pages[o].dic.orderedItems = Append(@, act)], o)

\* ----------------------------------------------------- ASOrderedCollection
\* _update_dict leaving totalItems as it was
UpdateDict_StaleTotal(H) ==
    [H EXCEPT !.col.dic.first =
                  IF Truthy(H.col.first)
                  THEN Ref(H.pages[H.col.first.v].dic.id) ELSE Null,
              !.col.dic.last =
                  IF Truthy(H.col.last)
                  THEN Ref(H.pages[H.col.last.v].dic.id) ELSE Null]

\* _update_dict
UpdateDict(H) ==
    [H EXCEPT !.col.dic.first =
                  IF Truthy(H.col.first)
                  THEN Ref(H.pages[H.col.first.v].dic.id) ELSE Null,
              !.col.dic.last =
                  IF Truthy(H.col.last)
                  THEN Ref(H.pages[H.col.last.v].dic.id) ELSE Null,
              !.col.dic.totalItems = H.col.total_items]

GetPageById(H, ldid) ==
    IF ldid \in DOMAIN H.col.page_map THEN Obj(H.col.page_map[ldid]) ELSE None

\* add, total_items == 1, with the assignment of last left out
AddSole_NoLast(H, o) == [H EXCEPT !.col.first = Obj(o)]

\* add, total_items == 1
AddSole(H, o) == [H EXCEPT !.col.first = Obj(o), !.col.last = Obj(o)]

\* add after cur, with the back link of the added page left out
AddAfterCur_NoPrev(H, o, cur) ==
    LET H1 == SetNext(H, cur, Obj(o))
    IN  IF H1.pages[cur].dic.id # H1.pages[H1.col.last.v].dic.id
        THEN LET H3 == SetPrev(H1, H1.pages[cur].next.v, Obj(o))
             IN  SetNext(H3, o, H3.pages[cur].next)
        ELSE [H1 EXCEPT !.col.last = Obj(o)]

\* add, "somewhere inbetween" / "at the very end" (cur is a page object)
AddAfterCur(H, o, cur) ==
    LET H1 == SetNext(H, cur, Obj(o))
        H2 == SetPrev(H1, o, Obj(cur))
    IN  IF H2.pages[cur].dic.id # H2.pages[H2.col.last.v].dic.id
        THEN LET H3 == SetPrev(H2, H2.pages[cur].next.v, Obj(o))
             IN  SetNext(H3, o, H3.pages[cur].next)
        ELSE [H2 EXCEPT !.col.last = Obj(o)]

\* add at the very beginning, with the back link of the old first left out
AddBeforeFirst_NoBackLink(H, o, cur) ==
    LET H1 == [H EXCEPT !.col.first = Obj(o)]
    IN  SetNext(H1, o, Obj(cur))

\* add, "at the very beginning"
AddBeforeFirst(H, o, cur) ==
    LET H1 == [H EXCEPT !.col.first = Obj(o)]
        H2 == SetPrev(H1, cur, Obj(o))
    IN  SetNext(H2, o, Obj(cur))

\* the backward scan with `cur = cur.prev` left out: a scan that finds no
\* position at last compares with last again and again
Scan_Stuck(H, o, cur, n) ==
    IF cur.k # "obj" THEN [H EXCEPT !.err = TRUE, !.steps = n, !.cursor = cur]
    ELSE IF After(H, o, cur.v)
         THEN [AddAfterCur(H, o, cur.v) EXCEPT !.steps = n + 1, !.cursor = cur]
    ELSE IF /\ H.pages[cur.v].dic.id = H.pages[H.col.first.v].dic.id
            /\ H.pages[o].prev = None
         THEN [AddBeforeFirst(H, o, cur.v) EXCEPT !.steps = n + 1,
                                                  !.cursor = cur]
    ELSE [H EXCEPT !.err = TRUE, !.steps = Cardinality(DOMAIN H.pages) + 1,
                   !.cursor = cur]

\* add, the backward scan from last; cur is a member value, n counts the
\* comparisons made so far.  to_add.after(cur) on None or on an id string
\* raises AttributeError; a scan that made more comparisons than there are
\* pages runs in a cycle of prev links and never returns.
RECURSIVE Scan(_, _, _, _)
Scan(H, o, cur, n) ==
    IF cur.k # "obj" THEN [H EXCEPT !.err = TRUE, !.steps = n, !.cursor = cur]
    ELSE IF n > Cardinality(DOMAIN H.pages)
         THEN [H EXCEPT !.err = TRUE, !.steps = n, !.cursor = cur]
    ELSE IF After(H, o, cur.v)
         THEN [AddAfterCur(H, o, cur.v) EXCEPT !.steps = n + 1, !.cursor = cur]
    ELSE IF /\ H.pages[cur.v].dic.id = H.pages[H.col.first.v].dic.id
            /\ H.pages[o].prev = None
         THEN [AddBeforeFirst(H, o, cur.v) EXCEPT !.steps = n + 1,
                                                  !.cursor = cur]
    ELSE Scan(H, o, H.pages[cur.v].prev, n + 1)

\* add, with the scan ending at the warning instead of raising
ColAdd_WarnOnly(H, o) ==
    LET H1 == SetPartOf(H, o)
        H2 == [H1 EXCEPT !.col.page_map =
                  IF H1.pages[o].dic.id \in DOMAIN @
                  THEN [@ EXCEPT ![H1.pages[o].dic.id] = o]
                  ELSE @ @@ (H1.pages[o].dic.id :> o),
               !.col.total_items = @ + 1,
               !.steps = 0,
               !.cursor = None]
        H3 == IF H2.col.total_items = 1 THEN AddSole(H2, o)
              ELSE IF H2.col.total_items > 1 THEN Scan(H2, o, H2.col.last, 0)
              ELSE H2
    IN  StoreCol(UpdateDict([H3 EXCEPT !.err = FALSE]))

ColAdd(H, o) ==
    LET H1 == SetPartOf(H, o)
        H2 == [H1 EXCEPT !.col.page_map =
                  IF H1.pages[o].dic.id \in DOMAIN @
                  THEN [@ EXCEPT ![H1.pages[o].dic.id] = o]
                  ELSE @ @@ (H1.pages[o].dic.id :> o),
               !.col.total_items = @ + 1,
               !.steps = 0,
               !.cursor = None]
        H3 == IF H2.col.total_items = 1 THEN AddSole(H2, o)
              ELSE IF H2.col.total_items > 1 THEN Scan(H2, o, H2.col.last, 0)
              ELSE H2
    IN  IF H3.err THEN H3 ELSE StoreCol(UpdateDict(H3))

\* remove, with to_rem.next.set_prev(to_rem.prev) left out
ColRemove_NoBackLink(H, o) ==
    LET H1 == [H EXCEPT !.col.total_items = @ - 1]
        pv == H1.pages[o].prev
        nx == H1.pages[o].next
        H2 == IF H1.col.total_items = 0
              THEN [H1 EXCEPT !.col.first = None, !.col.last = None]
              ELSE IF H1.col.total_items > 0
              THEN IF H1.pages[o].dic.id = H1.pages[H1.col.last.v].dic.id
                   THEN IF pv.k = "obj"
                        THEN UnsetNext([H1 EXCEPT !.col.last = pv], pv.v)
                        ELSE [H1 EXCEPT !.col.last = pv, !.err = TRUE]
                   ELSE IF H1.pages[o].dic.id = H1.pages[H1.col.first.v].dic.id
                   THEN IF nx.k = "obj"
                        THEN UnsetPrev([H1 EXCEPT !.col.first = nx], nx.v)
                        ELSE [H1 EXCEPT !.col.first = nx, !.err = TRUE]
                   ELSE IF pv.k = "obj" /\ nx.k = "obj"
                        THEN SetNext(H1, pv.v, nx)
                        ELSE IF pv.k = "obj"
                             THEN [SetNext(H1, pv.v, nx) EXCEPT !.err = TRUE]
                             ELSE [H1 EXCEPT !.err = TRUE]
              ELSE H1
    IN  IF H2.err THEN H2
        ELSE StoreCol(UpdateDict(UnsetNext(UnsetPrev(UnsetPartOf(H2, o), o), o)))

\* remove; the members used as pages must be page objects, otherwise the
\* call on them raises AttributeError
ColRemove(H, o) ==
    LET H1 == [H EXCEPT !.col.total_items = @ - 1]
        pv == H1.pages[o].prev
        nx == H1.pages[o].next
        H2 == IF H1.col.total_items = 0
              THEN [H1 EXCEPT !.col.first = None, !.col.last = None]
              ELSE IF H1.col.total_items > 0
              THEN IF H1.pages[o].dic.id = H1.pages[H1.col.last.v].dic.id
                   THEN IF pv.k = "obj"
                        THEN UnsetNext([H1 EXCEPT !.col.last = pv], pv.v)
                        ELSE [H1 EXCEPT !.col.last = pv, !.err = TRUE]
                   ELSE IF H1.pages[o].dic.id = H1.pages[H1.col.first.v].dic.id
                   THEN IF nx.k = "obj"
                        THEN UnsetPrev([H1 EXCEPT !.col.first = nx], nx.v)
                        ELSE [H1 EXCEPT !.col.first = nx, !.err = TRUE]
                   ELSE IF pv.k = "obj" /\ nx.k = "obj"
                        THEN SetPrev(SetNext(H1, pv.v, nx), nx.v, pv)
                        ELSE IF pv.k = "obj"
                             THEN [SetNext(H1, pv.v, nx) EXCEPT !.err = TRUE]
                             ELSE [H1 EXCEPT !.err = TRUE]
              ELSE H1
    IN  IF H2.err THEN H2
        ELSE StoreCol(UpdateDict(UnsetNext(UnsetPrev(UnsetPartOf(H2, o), o), o)))

\* ASOrderedCollectionPage.from_json on a new page object
FromJson(json) ==
    [dic |-> json,
     part_of |-> IF DicTruthy(json.partOf) THEN Str(json.partOf.v) ELSE None,
     prev |-> IF DicTruthy(json.prev) THEN Str(json.prev.v) ELSE None,
     next |-> IF DicTruthy(json.next) THEN Str(json.next.v) ELSE None]

\* restore_from_json: the loop over page_docs (a sequence of storage ids, in
\* the order the query returned them); an exception ends it
RECURSIVE RestorePages(_, _)
RestorePages(H, docs) ==
    IF docs = << >> \/ H.err THEN H
    ELSE LET o == Head(docs)
             H1 == [H EXCEPT !.pages = @ @@ (o :> FromJson(H.store.pages[o]))]
         IN  RestorePages(ColAdd(H1, o), Tail(docs))

\* restore_from_json on ASOrderedCollection(None, store_id)
RestoreFromJson(st, docs) ==
    LET c == [NewColObj(ColLdId) EXCEPT !.dic = st.coll[1]]
    IN  RestorePages(NewHeap(c, st), docs)

\* JSON_document.query.filter(id LIKE 'as_page_%').all(): the stored page
\* records in an order the database chooses
PageDocOrders(st) ==
    LET S == DOMAIN st.pages
    IN  {f \in [1..Cardinality(S) -> S] :
            \A i, j \in 1..Cardinality(S) : i # j => f[i] # f[j]}

\* -------------------------------------------------------------- traversal
\* The pages met from member value r by following the next (fwd) or prev
\* member while it is a page object, at most n of them.
RECURSIVE Walk(_, _, _, _)
Walk(pgs, r, fwd, n) ==
    IF r.k # "obj" \/ n = 0 THEN << >>
    ELSE << r.v >> \o Walk(pgs, IF fwd THEN pgs[r.v].next ELSE pgs[r.v].prev,
                           fwd, n - 1)

Fuel(pgs) == Cardinality(DOMAIN pgs) + 1

FwdWalk(c, pgs) == Walk(pgs, c.first, TRUE, Fuel(pgs))

BwdWalk(c, pgs) == Walk(pgs, c.last, FALSE, Fuel(pgs))

Reverse(s) == [i \in 1..Len(s) |-> s[Len(s) + 1 - i]]

Range(s) == {s[i] : i \in DOMAIN s}

NoDup(s) == \A i, j \in DOMAIN s : i # j => s[i] # s[j]

NonDecreasing(pgs, w) ==
    \A i, j \in DOMAIN w :
        i < j => EndTimeOfDic(pgs[w[i]].dic) <= EndTimeOfDic(pgs[w[j]].dic)

\* The forward walk visits total_items distinct pages and ends at last, the
\* backward walk is its reverse, and the ends have no outer neighbour.
WellLinked(c, pgs) ==
    LET w == FwdWalk(c, pgs)
    IN  /\ Len(w) = c.total_items
        /\ NoDup(w)
        /\ BwdWalk(c, pgs) = Reverse(w)
        /\ IF w = << >> THEN c.first = None /\ c.last = None
           ELSE /\ c.first = Obj(w[1]) /\ c.last = Obj(w[Len(w)])
                /\ pgs[w[1]].prev.k # "obj"
                /\ pgs[w[Len(w)]].next.k # "obj"

WellFormed(c, pgs) == WellLinked(c, pgs) /\ NonDecreasing(pgs, FwdWalk(c, pgs))

\* ======================================================= collection level
\* One collection object used by one caller: pages are created with an
\* activity, added and removed; a collection built by add alone is rebuilt
\* from the stored records, as every request does before it adds its page.
VARIABLES col, pages, store, err, steps, cursor, lastop, pre, added,
          removed, restored

\* Request level: the document table, the clock that stamps activities and
\* the log of the requests that called for an activity, in order.
VARIABLES docs, clock, log

\* Two requests in flight at once, each in its own database session.
VARIABLES proc

collvars == << col, pages, err, steps, cursor, lastop, pre, added, removed,
              restored >>

reqvars == << docs, clock, log >>

vars == << col, pages, store, err, steps, cursor, lastop, pre, added,
          removed, restored, docs, clock, log, proc >>


Heap == [col |-> col, pages |-> pages, store |-> store, err |-> err,
         steps |-> steps, cursor |-> cursor]

\* The page that was created and is not yet added, if any (a caller builds
\* one page at a time and adds it before it returns).
Pending == DOMAIN pages \ added

\* The collection and page objects and the stored records as they were
\* before the last operation
Snapshot == [col |-> col, pages |-> pages, restored |-> restored,
             store |-> store]

SetHeap(H) ==
    /\ col' = H.col
    /\ pages' = H.pages
    /\ store' = H.store
    /\ err' = H.err
    /\ steps' = H.steps
    /\ cursor' = H.cursor

NoOp == [op |-> "init", o |-> 0, order |-> << >>]

CollInit ==
    /\ col = NewColObj(ColLdId)
    /\ pages = << >>
    /\ err = FALSE
    /\ steps = 0
    /\ cursor = None
    /\ lastop = NoOp
    /\ added = {}
    /\ removed = {}
    /\ restored = FALSE
    /\ pre = Snapshot

ReqInit ==
    /\ docs = << >>
    /\ clock = 0
    /\ log = << >>

Init == store = EmptyStore /\ CollInit /\ ReqInit /\ proc = << >>

\* get_new_as_ordered_collection_page followed by page.add of the first
\* activity, stamped t
CreatePage(t) ==
    /\ ~err
    /\ Pending = {}
    /\ Cardinality(DOMAIN store.pages) < MaxPages
    /\ LET o == CHOOSE i \in PageIds : i \notin DOMAIN store.pages
           H1 == [Heap EXCEPT !.pages = @ @@ (o :> NewPageObj(o))]
       IN  /\ SetHeap(PageAdd(H1, o, Activity("Create", t, o, 0)))
           /\ lastop' = [op |-> "create", o |-> o, order |-> << >>]
    /\ pre' = Snapshot
    /\ UNCHANGED << added, removed, restored, docs, clock, log, proc >>

AddPage(o) ==
    /\ ~err
    /\ o \in DOMAIN pages
    /\ o \notin added
    /\ SetHeap(ColAdd(Heap, o))
    /\ lastop' = [op |-> "add", o |-> o, order |-> << >>]
    /\ pre' = Snapshot
    /\ added' = added \cup {o}
    /\ UNCHANGED << removed, restored, docs, clock, log, proc >>

RemovePage(o) ==
    /\ ~err
    /\ o \in added \ removed
    /\ SetHeap(ColRemove(Heap, o))
    /\ lastop' = [op |-> "remove", o |-> o, order |-> << >>]
    /\ pre' = Snapshot
    /\ removed' = removed \cup {o}
    /\ UNCHANGED << added, restored, docs, clock, log, proc >>

\* get_as_ordered_collection when the collection record exists: a new
\* collection object restored from the stored records
Restore ==
    /\ ~err
    /\ Pending = {}
    /\ removed = {}
    /\ lastop.op # "restore"
    /\ store.coll # << >>
    /\ \E order \in PageDocOrders(store) :
           /\ SetHeap(RestoreFromJson(store, order))
           /\ lastop' = [op |-> "restore", o |-> 0, order |-> order]
    /\ pre' = Snapshot
    /\ added' = DOMAIN store.pages
    /\ removed' = {}
    /\ restored' = TRUE
    /\ UNCHANGED << docs, clock, log, proc >>

Next ==
    \/ \E t \in Times : CreatePage(t)
    \/ \E o \in PageIds : AddPage(o)
    \/ \E o \in PageIds : RemovePage(o)
    \/ Restore

Spec == Init /\ [][Next]_vars

\* restore_from_json called with only some of the stored page records: the
\* sequences of distinct storage ids of stored pages
SomePageDocs(st) ==
    UNION {{f \in [1..Cardinality(S) -> S] :
               \A i, j \in 1..Cardinality(S) : i # j => f[i] # f[j]} :
           S \in SUBSET DOMAIN st.pages}

\* restore_from_json on a new collection object, given the stored collection
\* record and the page records docs
RestoreSome ==
    /\ ~err
    /\ Pending = {}
    /\ removed = {}
    /\ ~restored
    /\ store.coll # << >>
    /\ \E order \in SomePageDocs(store) :
           /\ SetHeap(RestoreFromJson(store, order))
           /\ lastop' = [op |-> "restore_some", o |-> 0, order |-> order]
           /\ added' = Range(order)
    /\ pre' = Snapshot
    /\ removed' = {}
    /\ restored' = TRUE
    /\ UNCHANGED << docs, clock, log, proc >>

\* The collection level with restore_from_json applied to any selection of
\* the stored page records
SomeNext == Next \/ RestoreSome

SpecSome == Init /\ [][SomeNext]_vars

\* add called with a page that is already in the collection (the same id)
AddAgain(o) ==
    /\ ~err
    /\ o \in added \ removed
    /\ col.total_items <= MaxPages
    /\ SetHeap(ColAdd(Heap, o))
    /\ lastop' = [op |-> "add_again", o |-> o, order |-> << >>]
    /\ pre' = Snapshot
    /\ UNCHANGED << added, removed, restored, docs, clock, log, proc >>

DupNext == Next \/ \E o \in PageIds : AddAgain(o)

\* The collection level with add applied to pages already added
SpecDup == Init /\ [][DupNext]_vars

\* ========================================================= request level
\* HTTP requests served one after the other.  Each request works in its own
\* database session: what store() flushed is committed by
\* db.session.commit() and rolled back when the request ends with an
\* exception.
MaxDocs == 1
MaxStamp == 4
MaxToken == 1

\* Cfg: the stream is served, @ids are rewritten; document types "cur" (the
\* Curation type) and "gen" are rewritten and activity generating, "plain"
\* is neither.
ServeAs == TRUE
IdTypes == {"cur", "gen"}
AsTypes == {"cur", "gen"}
TypeClasses == {"cur", "gen", "plain"}
CurType == "cur"

\* access tokens; 0 is the empty string (no X-Access-Token header)
Tokens == 0..MaxToken

\* Curation.get_range_summary / get_all_canvases of one stored Curation: the
\* activities after its Create, one Reference per canvas and one Offer per
\* range (here one of each), with the Curation as origin
CurationFanOut(d, t) ==
    << Activity("Reference", t, 0, d), Activity("Offer", t, 0, d) >>

RECURSIVE PageAddAll(_, _, _)
PageAddAll(H, o, acts) ==
    IF acts = << >> THEN H
    ELSE PageAddAll(PageAdd(H, o, Head(acts)), o, Tail(acts))

\* get_as_ordered_collection
GetAsOrderedCollection(st, order) ==
    IF st.coll # << >> THEN RestoreFromJson(st, order)
    ELSE NewHeap(NewColObj(ColLdId), st)

\* The orders in which the page query of a session that restores the
\* collection can answer
RestoreOrders(st) ==
    IF st.coll # << >> THEN PageDocOrders(st) ELSE {<< >>}

\* uuid.uuid4(): a storage id no stored page has
NewPageId(st) ==
    CHOOSE i \in 1..(Cardinality(DOMAIN st.pages) + 1) : i \notin DOMAIN st.pages

\* get_new_as_ordered_collection_page with id o, page.add of each activity,
\* col.add
AppendNewPage(H, o, acts) ==
    IF H.err THEN H
    ELSE LET H1 == [H EXCEPT !.pages = @ @@ (o :> NewPageObj(o))]
         IN  ColAdd(PageAddAll(H1, o, acts), o)

\* A session that did nothing
Untouched(st) == NewHeap(NewColObj(ColLdId), st)

\* update_activity_stream_create for document d of type class tc, called
\* with the type list types; a document that is not a Curation has no
\* selections, which the Curation branch reads
UpdateActivityStreamCreate(st, order, d, types, tc, t) ==
    IF ~ServeAs \/ types \cap AsTypes = {} THEN Untouched(st)
    ELSE LET H == GetAsOrderedCollection(st, order)
         IN  IF CurType \notin types
             THEN AppendNewPage(H, NewPageId(st),
                                << Activity("Create", t, d, 0) >>)
             ELSE IF tc # CurType THEN [H EXCEPT !.err = TRUE]
             ELSE AppendNewPage(H, NewPageId(st),
                                << Activity("Create", t, d, 0) >>
                                \o CurationFanOut(d, t))

\* update_activity_stream_update, with the collection left unrestored
UpdateActivityStreamUpdate_Fresh(st, order, d, types, t) ==
    IF ~ServeAs \/ types \cap AsTypes = {} THEN Untouched(st)
    ELSE AppendNewPage(Untouched(st), NewPageId(st),
                       << Activity("Update", t, d, 0) >>)

UpdateActivityStreamUpdate(st, order, d, types, t) ==
    IF ~ServeAs \/ types \cap AsTypes = {} THEN Untouched(st)
    ELSE AppendNewPage(GetAsOrderedCollection(st, order), NewPageId(st),
                       << Activity("Update", t, d, 0) >>)

UpdateActivityStreamDelete(st, order, d, t) ==
    IF ~ServeAs THEN Untouched(st)
    ELSE AppendNewPage(GetAsOrderedCollection(st, order), NewPageId(st),
                       << Activity("Delete", t, d, 0) >>)

\* is_in_actstr(doc_id): the id extracted from an activity overwrites the
\* parameter and is then compared with itself, so the first activity of the
\* first page answers True
IsInActstrValue(st) ==
    /\ st.coll # << >>
    /\ \E o \in DOMAIN st.pages : st.pages[o].orderedItems # << >>

\* the session after is_in_actstr: the collection was restored
IsInActstrHeap(st, order) ==
    IF st.coll # << >> THEN RestoreFromJson(st, order) ELSE Untouched(st)

\* the record of a document that was deleted
Gone == [live |-> FALSE, token |-> 0, unlisted |-> FALSE, is_json_ld |-> FALSE,
         tc |-> "plain"]

Live(d) == d \in DOMAIN docs /\ docs[d].live

\* handle_put_request / handle_delete_request / handle_doc_status_request
Authorized(d, tok) == docs[d].token = tok \/ docs[d].token = 0

\* The end of a request, with what a failed session flushed left in place
Finish_NoRollback(op, d, H, qual, type) ==
    /\ store' = H.store
    /\ clock' = IF qual THEN clock + 1 ELSE clock
    /\ log' = IF qual
              THEN Append(log, [op |-> op, d |-> d, type |-> type,
                                status |-> IF H.err THEN 500 ELSE 200])
              ELSE log
    /\ UNCHANGED << collvars, proc >>

\* The end of a request whose stream update ran in session H: commit, or
\* the rollback of what the session flushed and the answer 500.  A request
\* that called for an activity (qual) took the next time stamp and is logged.
Finish(op, d, H, qual, type) ==
    /\ store' = IF H.err THEN store ELSE H.store
    /\ clock' = IF qual THEN clock + 1 ELSE clock
    /\ log' = IF qual
              THEN Append(log, [op |-> op, d |-> d, type |-> type,
                                status |-> IF H.err THEN 500 ELSE 200])
              ELSE log
    /\ UNCHANGED << collvars, proc >>

\* A request refused with 403 or 404
Refuse == UNCHANGED vars

\* handle_post_request without the test of the unlisted setting
Post_IgnoreUnlisted(tok, unl, ld, tc) ==
    /\ Cardinality(DOMAIN docs) < MaxDocs
    /\ LET d == Cardinality(DOMAIN docs) + 1
           idc == ld /\ tc \in IdTypes
           types == IF ld THEN {tc} ELSE {}
           call == ld /\ idc /\ tok # 0
           qual == call /\ ServeAs /\ types \cap AsTypes # {}
       IN  /\ qual => clock < MaxStamp
           /\ docs' = docs @@ (d :> [live |-> TRUE, token |-> tok,
                                     unlisted |-> unl, is_json_ld |-> ld,
                                     tc |-> tc])
           /\ IF qual
              THEN \E order \in RestoreOrders(store) :
                     Finish("POST", d,
                            UpdateActivityStreamCreate(store, order, d, types,
                                                       tc, clock + 1),
                            TRUE, "Create")
              ELSE Finish("POST", d, Untouched(store), FALSE, "Create")

\* handle_post_request, write_json for a new document (the posted JSON is
\* an object with the keys '@id' and '@type', which the activity builders
\* read)
Post(tok, unl, ld, tc) ==
    /\ Cardinality(DOMAIN docs) < MaxDocs
    /\ LET d == Cardinality(DOMAIN docs) + 1
           idc == ld /\ tc \in IdTypes
           types == IF ld THEN {tc} ELSE {}
           call == ld /\ idc /\ ~unl /\ tok # 0
           qual == call /\ ServeAs /\ types \cap AsTypes # {}
       IN  /\ qual => clock < MaxStamp
           /\ docs' = docs @@ (d :> [live |-> TRUE, token |-> tok,
                                     unlisted |-> unl, is_json_ld |-> ld,
                                     tc |-> tc])
           /\ IF qual
              THEN \E order \in RestoreOrders(store) :
                     Finish("POST", d,
                            UpdateActivityStreamCreate(store, order, d, types,
                                                       tc, clock + 1),
                            TRUE, "Create")
              ELSE Finish("POST", d, Untouched(store), FALSE, "Create")

\* handle_put_request, write_json for a stored document; the new content has
\* the type of the old
Put(d, tok) ==
    /\ d \in DOMAIN docs
    /\ IF ~docs[d].live \/ ~Authorized(d, tok) THEN Refuse
       ELSE LET ld == docs[d].is_json_ld
                types == IF ld THEN {docs[d].tc} ELSE {}
                call == ld /\ ~docs[d].unlisted /\ tok # 0
                qual == call /\ ServeAs /\ types \cap AsTypes # {}
            IN  /\ qual => clock < MaxStamp
                /\ docs' = docs
                /\ IF qual
                   THEN \E order \in RestoreOrders(store) :
                          Finish("PUT", d,
                                 UpdateActivityStreamUpdate(store, order, d,
                                                            types, clock + 1),
                                 TRUE, "Update")
                   ELSE Finish("PUT", d, Untouched(store), FALSE, "Update")

\* handle_delete_request
Delete(d, tok) ==
    /\ d \in DOMAIN docs
    /\ IF ~docs[d].live \/ ~Authorized(d, tok) THEN Refuse
       ELSE LET qual == ServeAs /\ IsInActstrValue(store)
            IN  /\ qual => clock < MaxStamp
                /\ docs' = [docs EXCEPT ![d] = Gone]
                /\ IF qual
                   THEN \E o1 \in RestoreOrders(store) :
                          LET H1 == IsInActstrHeap(store, o1)
                          IN  IF H1.err
                              THEN Finish("DELETE", d, H1, TRUE, "Delete")
                              ELSE \E o2 \in RestoreOrders(H1.store) :
                                     Finish("DELETE", d,
                                            UpdateActivityStreamDelete(
                                                H1.store, o2, d, clock + 1),
                                            TRUE, "Delete")
                   ELSE Finish("DELETE", d, Untouched(store), FALSE, "Delete")

\* handle_doc_status_request with PATCH, patch_metadata with unlisted = val
Patch(d, tok, val) ==
    /\ d \in DOMAIN docs
    /\ IF ~docs[d].live \/ ~Authorized(d, tok) THEN Refuse
       ELSE LET toPublic == ~val /\ docs[d].unlisted
                toPrivate == val /\ ~docs[d].unlisted
                qual == ServeAs /\ (toPublic \/ toPrivate)
            IN  /\ qual => clock < MaxStamp
                /\ IF qual
                   THEN \E order \in RestoreOrders(store) :
                          LET H == IF toPublic
                                   THEN UpdateActivityStreamCreate(store,
                                            order, d, AsTypes, docs[d].tc,
                                            clock + 1)
                                   ELSE UpdateActivityStreamDelete(store,
                                            order, d, clock + 1)
                          IN  /\ docs' = IF H.err THEN docs
                                         ELSE [docs EXCEPT ![d].unlisted = val]
                              /\ Finish("PATCH", d, H, TRUE,
                                        IF toPublic THEN "Create" ELSE "Delete")
                   ELSE /\ docs' = [docs EXCEPT ![d].unlisted = val]
                        /\ Finish("PATCH", d, Untouched(store), FALSE, "Delete")

ReqNext ==
    \/ \E tok \in Tokens, unl \in BOOLEAN, ld \in BOOLEAN, tc \in TypeClasses :
          Post(tok, unl, ld, tc)
    \/ \E d \in 1..MaxDocs, tok \in Tokens : Put(d, tok)
    \/ \E d \in 1..MaxDocs, tok \in Tokens : Delete(d, tok)
    \/ \E d \in 1..MaxDocs, tok \in Tokens, val \in BOOLEAN : Patch(d, tok, val)

SpecReq == Init /\ [][ReqNext]_vars

\* The stream of a server that announced one document which is no longer in
\* the table (its id, MaxDocs + 1, is the id of no row): one page with the
\* Create of that document, written at the epoch
OldStore ==
    AppendNewPage(Untouched(EmptyStore), 1,
                  << Activity("Create", Epoch, MaxDocs + 1, 0) >>).store

OldInit == store = OldStore /\ CollInit /\ ReqInit /\ proc = << >>

\* The requests on a server whose stream holds an activity already
SpecOld == OldInit /\ [][ReqNext]_vars

\* ------------------------------------------- stream records as documents
\* The collection and page records live in the table of the documents, so
\* the document requests and the garbage collection can name them.

\* get_access_token without a token header: the empty string
NoToken == 0

\* ASWrapper.store creating a record without access restriction
StoreToken_Empty == NoToken

\* ASWrapper.store creating a record: access_token = str(uuid.uuid4()), a
\* value no request carries (get_access_token answers '' or a prefixed
\* header value) and never the empty string
StoreToken == MaxToken + 1

\* views.activity_stream_collection: GET of the stream collection
ActivityStreamCollection(st) ==
    IF st.coll # << >> THEN [status |-> 200, body |-> st.coll]
    ELSE [status |-> 404, body |-> << >>]

\* handle_delete_request with the storage id of the collection record and
\* token tok; with the record gone is_in_actstr answers False
DeleteStreamRecord(tok) ==
    /\ store.coll # << >>
    /\ IF StoreToken = tok \/ StoreToken = 0
       THEN /\ store' = [store EXCEPT !.coll = << >>]
            /\ UNCHANGED << collvars, docs, clock, log, proc >>
       ELSE Refuse

\* handle_put_request with the storage id of page record o and token tok; a
\* stream record is not JSON-LD, so an accepted PUT replaces its JSON by the
\* request's (here an empty page) and calls for no activity
PutStreamPage(o, tok) ==
    /\ o \in DOMAIN store.pages
    /\ IF StoreToken = tok \/ StoreToken = NoToken
       THEN /\ store' = [store EXCEPT !.pages[o] = NewPageObj(o).dic]
            /\ UNCHANGED << collvars, docs, clock, log, proc >>
       ELSE Refuse

\* handle_delete_request with the storage id of page record o, the token
\* never tested
DeleteStreamPage_NoAuth(o, tok) ==
    /\ o \in DOMAIN store.pages
    /\ store' = [store EXCEPT
                    !.pages = [q \in DOMAIN store.pages \ {o} |-> store.pages[q]]]
    /\ UNCHANGED << collvars, docs, clock, log, proc >>

\* handle_delete_request with the storage id of page record o and token tok;
\* an accepted DELETE commits the deletion, and the stream update that
\* follows reads '@id' of the page's JSON, which it does not have, and is
\* rolled back
DeleteStreamPage(o, tok) ==
    /\ o \in DOMAIN store.pages
    /\ IF StoreToken = tok \/ StoreToken = NoToken
       THEN /\ store' = [store EXCEPT
                           !.pages = [q \in DOMAIN store.pages \ {o} |->
                                          store.pages[q]]]
            /\ UNCHANGED << collvars, docs, clock, log, proc >>
       ELSE Refuse

\* the storage ids of the stream's records: ColLdId for the collection
\* record, o for page o
StreamRecords(st) ==
    (IF st.coll # << >> THEN {ColLdId} ELSE {}) \cup DOMAIN st.pages

\* the stream records collect_garbage can select: those stored with the
\* empty access token
Unrestricted(st) ==
    IF StoreToken = NoToken THEN StreamRecords(st) ELSE {}

\* collect_garbage: the records without access restriction that are old
\* enough (the documents of S, the stream records of R) are deleted, with
\* no stream update
CollectGarbage(S, R) ==
    /\ S \subseteq {d \in DOMAIN docs : docs[d].live /\ docs[d].token = NoToken}
    /\ R \subseteq Unrestricted(store)
    /\ S # {} \/ R # {}
    /\ docs' = [d \in DOMAIN docs |-> IF d \in S THEN Gone ELSE docs[d]]
    /\ store' = [coll |-> IF ColLdId \in R THEN << >> ELSE store.coll,
                 pages |-> [q \in DOMAIN store.pages \ R |-> store.pages[q]]]
    /\ UNCHANGED << collvars, clock, log, proc >>

GcNext ==
    \/ ReqNext
    \/ \E tok \in Tokens : DeleteStreamRecord(tok)
    \/ \E o \in 1..MaxStamp, tok \in Tokens : PutStreamPage(o, tok)
    \/ \E o \in 1..MaxStamp, tok \in Tokens : DeleteStreamPage(o, tok)
    \/ \E S \in SUBSET (1..MaxDocs), R \in SUBSET Unrestricted(store) :
          CollectGarbage(S, R)

\* The requests, with requests on the stream's own records and garbage
\* collection runs between them
SpecGc == Init /\ [][GcNext]_vars

\* ===================================================== concurrent requests
\* Two stream updates in flight on the same stream.  Nothing in the code
\* locks the stream: each request reads the committed records, rebuilds the
\* collection and inserts its page in its own session, and its commit writes
\* the records it changed.
MaxPre == 2

Procs == {1, 2}

Idle == [pc |-> "idle", snap |-> EmptyStore, H |-> Untouched(EmptyStore),
         page |-> 0]

\* The stream after k requests served one after the other, the pages
\* returned in the order of their creation
RECURSIVE SeqStore(_)
SeqStore(k) ==
    IF k = 0 THEN EmptyStore
    ELSE LET st == SeqStore(k - 1)
         IN  AppendNewPage(GetAsOrderedCollection(st, [i \in 1..(k - 1) |-> i]),
                           k, << Activity("Create", k, k, 0) >>).store

\* get_actstr_collection / get_actstr_collection_pages: the session reads
\* the committed records
Load(p) ==
    /\ proc[p].pc = "idle"
    /\ proc' = [proc EXCEPT ![p].pc = "loaded", ![p].snap = store]
    /\ UNCHANGED << collvars, store, docs, clock, log >>

\* get_as_ordered_collection: restore_from_json on what was read
Reconstruct(p) ==
    /\ proc[p].pc = "loaded"
    /\ \E order \in RestoreOrders(proc[p].snap) :
         LET H == GetAsOrderedCollection(proc[p].snap, order)
         IN  proc' = [proc EXCEPT ![p].pc = IF H.err THEN "failed" ELSE "built",
                                  ![p].H = H]
    /\ UNCHANGED << collvars, store, docs, clock, log >>

\* a new page with the Update of document p, and col.add
Insert(p) ==
    /\ proc[p].pc = "built"
    /\ LET o == MaxPre + p
           H == AppendNewPage(proc[p].H, o,
                              << Activity("Update", clock + 1, p, 0) >>)
       IN  proc' = [proc EXCEPT ![p].pc = IF H.err THEN "failed" ELSE "inserted",
                                ![p].H = H, ![p].page = o]
    /\ clock' = clock + 1
    /\ UNCHANGED << collvars, store, docs, log >>

\* The records session H flushed that differ from what it read (snap),
\* written over the committed records st
Commit(st, snap, H) ==
    [coll |-> IF H.store.coll # snap.coll THEN H.store.coll ELSE st.coll,
     pages |-> [o \in DOMAIN st.pages \cup DOMAIN H.store.pages |->
                  IF o \notin DOMAIN H.store.pages THEN st.pages[o]
                  ELSE IF o \notin DOMAIN st.pages THEN H.store.pages[o]
                  ELSE IF o \in DOMAIN snap.pages
                          /\ H.store.pages[o] = snap.pages[o]
                       THEN st.pages[o]
                       ELSE H.store.pages[o]]]

\* db.session.commit(); the INSERT of a collection record that another
\* session inserted meanwhile violates the primary key
Persist(p) ==
    /\ proc[p].pc = "inserted"
    /\ IF proc[p].snap.coll = << >> /\ store.coll # << >>
       THEN /\ proc' = [proc EXCEPT ![p].pc = "failed"]
            /\ UNCHANGED store
       ELSE /\ proc' = [proc EXCEPT ![p].pc = "done"]
            /\ store' = Commit(store, proc[p].snap, proc[p].H)
    /\ UNCHANGED << collvars, docs, clock, log >>

ConcInit ==
    /\ \E k \in 0..MaxPre : store = SeqStore(k) /\ clock = k
    /\ CollInit
    /\ docs = << >>
    /\ log = << >>
    /\ proc = [p \in Procs |-> Idle]

ConcNext ==
    \/ \E p \in Procs : Load(p)
    \/ \E p \in Procs : Reconstruct(p)
    \/ \E p \in Procs : Insert(p)
    \/ \E p \in Procs : Persist(p)

SpecConc == ConcInit /\ [][ConcNext]_vars

\* ===================================================== document contents
\* The table of the documents with their JSON: what POST, PUT and DELETE
\* write and what the reading endpoints answer.  A row is written and
\* committed before the stream update of the request starts, so the stream
\* is left out here; log holds the last accepted write request.
MaxJson == 2
MaxSel == 2

\* the '@id' a client wrote into its JSON (documents and ranges alike)
ClientId == 0

\* serv_url + url_for('jk.api_json_id', json_id = d)
Location(d) == d

\* the JSON of a request: root '@id', payload c, and for the JSON of a
\* Curation the key 'selections' with n ranges (label: the position the
\* client gave the range)
Json(c, cur, n) ==
    [id |-> ClientId, body |-> c, selk |-> cur,
     sel |-> [i \in 1..n |-> [id |-> ClientId, label |-> i]]]

NoJson == [id |-> ClientId, body |-> 0, selk |-> FALSE, sel |-> << >>]

\* handle_incoming_json_ld rewriting the root '@id' whatever the type
HandleIncomingJsonLd_AllTypes(js, d, tc) ==
    [js EXCEPT !.id = Location(d),
               !.sel = IF tc = CurType
                       THEN [i \in DOMAIN js.sel |-> [js.sel[i] EXCEPT !.id = i]]
                       ELSE js.sel]

\* handle_incoming_json_ld: the root '@id' of a document of a rewritten type
\* becomes its location, the '@id' of the idx-th range of a Curation becomes
\* <location>/range<idx+1> (here the number idx+1)
HandleIncomingJsonLd(js, d, tc) ==
    IF tc \notin IdTypes THEN js
    ELSE [js EXCEPT !.id = Location(d),
                    !.sel = IF tc = CurType
                            THEN [i \in DOMAIN js.sel |->
                                      [js.sel[i] EXCEPT !.id = i]]
                            ELSE js.sel]

\* _write_json__request_independent: the JSON string that is stored
StoredJson(js, d, ld, tc) ==
    IF ld THEN HandleIncomingJsonLd(js, d, tc) ELSE js

\* the row of a deleted document
NoRow == [live |-> FALSE, token |-> NoToken, unlisted |-> FALSE,
          is_json_ld |-> FALSE,
          tc |-> "plain", json |-> NoJson]

\* the test of the access token in handle_put_request, any token accepted
TokenOk_Any(d, tok) == TRUE

\* the test of the access token in handle_put_request and
\* handle_delete_request
TokenOk(d, tok) == docs[d].token = tok \/ docs[d].token = NoToken

\* handle_post_request: a new row under a fresh id
HandlePostRequest(tok, unl, ld, tc, c, n) ==
    /\ Cardinality(DOMAIN docs) < MaxDocs
    /\ n > 0 => tc = CurType
    /\ LET d == Cardinality(DOMAIN docs) + 1
           js == Json(c, tc = CurType, n)
       IN  /\ docs' = docs @@ (d :> [live |-> TRUE, token |-> tok,
                                     unlisted |-> unl,
                                     is_json_ld |-> ld, tc |-> tc,
                                     json |-> StoredJson(js, d, ld, tc)])
           /\ log' = << [op |-> "POST", d |-> d, tok |-> tok, ld |-> ld,
                         json |-> js] >>
    /\ UNCHANGED << collvars, store, clock, proc >>

\* handle_put_request storing the request's token with the JSON
HandlePutRequest_StoresToken(d, tok, ld, c, n) ==
    /\ d \in DOMAIN docs
    /\ IF ~docs[d].live \/ ~TokenOk(d, tok) THEN Refuse
       ELSE /\ n > 0 => docs[d].tc = CurType
            /\ LET js == Json(c, docs[d].tc = CurType, n)
               IN  /\ docs' = [docs EXCEPT ![d].json =
                                  StoredJson(js, d, docs[d].is_json_ld,
                                             docs[d].tc),
                                          ![d].token = tok]
                   /\ log' = << [op |-> "PUT", d |-> d, tok |-> tok,
                                 ld |-> ld, json |-> js] >>
            /\ UNCHANGED << collvars, store, clock, proc >>

\* handle_put_request: 404 for no row, 403 for the wrong token, else the
\* row's JSON is replaced (the new JSON has the type of the old).  ld is the
\* request's Content-Type (application/ld+json or not), which the write of a
\* stored document does not read: it goes with the row's is_json_ld
HandlePutRequest(d, tok, ld, c, n) ==
    /\ d \in DOMAIN docs
    /\ IF ~docs[d].live \/ ~TokenOk(d, tok) THEN Refuse
       ELSE /\ n > 0 => docs[d].tc = CurType
            /\ LET js == Json(c, docs[d].tc = CurType, n)
               IN  /\ docs' = [docs EXCEPT ![d].json =
                                  StoredJson(js, d, docs[d].is_json_ld,
                                             docs[d].tc)]
                   /\ log' = << [op |-> "PUT", d |-> d, tok |-> tok,
                                 ld |-> ld, json |-> js] >>
            /\ UNCHANGED << collvars, store, clock, proc >>

\* handle_delete_request: 404 for no row, 403 for the wrong token, else the
\* row is deleted
HandleDeleteRequest(d, tok) ==
    /\ d \in DOMAIN docs
    /\ IF ~docs[d].live \/ ~TokenOk(d, tok) THEN Refuse
       ELSE /\ docs' = [docs EXCEPT ![d] = NoRow]
            /\ log' = << [op |-> "DELETE", d |-> d, tok |-> tok,
                          ld |-> FALSE, json |-> NoJson] >>
            /\ UNCHANGED << collvars, store, clock, proc >>

\* the status handle_put_request and handle_delete_request answer
WriteStatus(d, tok) ==
    IF d \notin DOMAIN docs \/ ~docs[d].live THEN 404
    ELSE IF ~TokenOk(d, tok) THEN 403
    ELSE 200

\* handle_get_request: the stored JSON, or 404
HandleGetRequest(d) ==
    IF d \in DOMAIN docs /\ docs[d].live
    THEN [status |-> 200, json |-> docs[d].json]
    ELSE [status |-> 404, json |-> NoJson]

\* ranges[i] of a Python list: a negative index counts from the end, an
\* index out of range raises
PyIndex(s, i) ==
    IF 0 <= i /\ i < Len(s) THEN [ok |-> TRUE, v |-> s[i + 1]]
    ELSE IF i < 0 /\ 0 - i <= Len(s) THEN [ok |-> TRUE, v |-> s[Len(s) + i + 1]]
    ELSE [ok |-> FALSE, v |-> [id |-> ClientId, label |-> 0]]

\* Curation.get_nth_range
GetNthRange(js, n) ==
    IF n <= Len(js.sel)
    THEN LET r == PyIndex(js.sel, n - 1)
         IN  [found |-> r.ok, raised |-> ~r.ok, range |-> r.v]
    ELSE [found |-> FALSE, raised |-> FALSE,
          range |-> [id |-> ClientId, label |-> 0]]

\* api_json_id_range: GET <location>/range<n>
ApiJsonIdRange(d, n) ==
    IF d \notin DOMAIN docs \/ ~docs[d].live \/ ~docs[d].json.selk
    THEN [status |-> 404, range |-> [id |-> ClientId, label |-> 0]]
    ELSE LET r == GetNthRange(docs[d].json, n)
         IN  [status |-> IF r.raised THEN 500
                         ELSE IF r.found THEN 200 ELSE 404,
              range |-> r.range]

\* the rows of the table with access token tok: documents and stream
\* records
RowsOfToken(tok) ==
    {<< "doc", d >> : d \in {e \in DOMAIN docs :
                                docs[e].live /\ docs[e].token = tok}}
    \cup {<< "stream", r >> : r \in {q \in StreamRecords(store) :
                                         StoreToken = tok}}

\* handle_userdocs_request without the test for the empty token
HandleUserdocsRequest_NoGuard(tok) == RowsOfToken(tok)

\* handle_userdocs_request: the rows stored under the request's token,
\* none for a request without token
HandleUserdocsRequest(tok) ==
    IF tok # NoToken THEN RowsOfToken(tok) ELSE {}

\* a table without documents that holds the stream of k activities
DocInit ==
    /\ \E k \in 0..MaxPre : store = SeqStore(k) /\ clock = k
    /\ CollInit
    /\ docs = << >>
    /\ log = << >>
    /\ proc = << >>

DocNext ==
    \/ \E tok \in Tokens, unl, ld \in BOOLEAN, tc \in TypeClasses,
          c \in 1..MaxJson, n \in 0..MaxSel :
          HandlePostRequest(tok, unl, ld, tc, c, n)
    \/ \E d \in 1..MaxDocs, tok \in Tokens, ld \in BOOLEAN,
          c \in 1..MaxJson, n \in 0..MaxSel :
          HandlePutRequest(d, tok, ld, c, n)
    \/ \E d \in 1..MaxDocs, tok \in Tokens : HandleDeleteRequest(d, tok)

SpecDoc == DocInit /\ [][DocNext]_vars

\* ================================================= garbage collection age
\* The table of the documents with the time columns the garbage collection
\* reads: a row holds its access token, created_at (server default now())
\* and updated_at (set by now() on every UPDATE of the row, None before the
\* first).  clock is the database time; log holds the last operation.
MaxAged == 2
MaxClock == 3

\* Cfg.garbage_collection_age: [api] garbage_collection_age, in seconds
GarbageCollectionAge == 1

At(t) == [k |-> "time", v |-> t]

\* a row deleted from the table
NoAgedRow == [live |-> FALSE, token |-> NoToken, created_at |-> Epoch,
              updated_at |-> None]

\* time passes
Tick ==
    /\ clock < MaxClock
    /\ clock' = clock + 1
    /\ UNCHANGED << collvars, store, docs, log, proc >>

\* handle_post_request: the INSERT of a row with the request's token
PostRow(tok) ==
    /\ Cardinality(DOMAIN docs) < MaxAged
    /\ docs' = docs @@ (Cardinality(DOMAIN docs) + 1 :>
                           [live |-> TRUE, token |-> tok, created_at |-> clock,
                            updated_at |-> None])
    /\ log' = << [op |-> "POST"] >>
    /\ UNCHANGED << collvars, store, clock, proc >>

\* handle_put_request: json_doc.json_string is assigned and committed; the
\* UPDATE (and with it updated_at) is issued when the string changed
PutRow(d, tok, changed) ==
    /\ d \in DOMAIN docs
    /\ IF ~docs[d].live \/ ~(docs[d].token = tok \/ docs[d].token = NoToken)
       THEN Refuse
       ELSE /\ docs' = [docs EXCEPT ![d].updated_at =
                           IF changed THEN At(clock) ELSE @]
            /\ log' = << [op |-> "PUT"] >>
            /\ UNCHANGED << collvars, store, clock, proc >>

\* collect_garbage's doc_db_time, read from created_at alone
DocDbTime_Created(row) == row.created_at

\* collect_garbage: doc_db_time of a row
DocDbTime(row) ==
    IF Truthy(row.updated_at) THEN row.updated_at.v ELSE row.created_at

\* collect_garbage: the list garbage, of the rows with the empty access
\* token whose age exceeds the configured age
Garbage ==
    {d \in DOMAIN docs :
        /\ docs[d].live
        /\ docs[d].token = NoToken
        /\ clock - DocDbTime(docs[d]) > GarbageCollectionAge}

\* the stream records in that list (they were written at the epoch)
StreamGarbage(st) ==
    IF clock - Epoch > GarbageCollectionAge THEN Unrestricted(st) ELSE {}

\* collect_garbage, one run of the scheduled job
CollectGarbageRun ==
    /\ docs' = [d \in DOMAIN docs |->
                   IF d \in Garbage THEN NoAgedRow ELSE docs[d]]
    /\ store' = [coll |-> IF ColLdId \in StreamGarbage(store)
                          THEN << >> ELSE store.coll,
                 pages |-> [q \in DOMAIN store.pages \ StreamGarbage(store) |->
                               store.pages[q]]]
    /\ log' = << [op |-> "GC"] >>
    /\ UNCHANGED << collvars, clock, proc >>

\* an empty table that holds the stream of k activities, at the epoch
AgeInit ==
    /\ \E k \in 0..MaxPre : store = SeqStore(k)
    /\ clock = Epoch
    /\ CollInit
    /\ docs = << >>
    /\ log = << >>
    /\ proc = << >>

AgeNext ==
    \/ Tick
    \/ \E tok \in Tokens : PostRow(tok)
    \/ \E d \in 1..MaxAged, tok \in Tokens, changed \in BOOLEAN :
          PutRow(d, tok, changed)
    \/ CollectGarbageRun

\* Requests and garbage collection runs as time passes
SpecAge == AgeInit /\ [][AgeNext]_vars

\* ---------------------------------------------------- the persisted stream
\* The storage ids met from the stored collection's first by following the
\* next reference of the stored page records, at most n of them
RECURSIVE StoredWalk(_, _, _)
StoredWalk(st, r, n) ==
    IF r.k # "ref" \/ n = 0 THEN << >>
    ELSE IF r.v \notin DOMAIN st.pages THEN << >>
    ELSE << r.v >> \o StoredWalk(st, st.pages[r.v].next, n - 1)

StoredPages(st) ==
    IF st.coll = << >> THEN << >>
    ELSE StoredWalk(st, st.coll[1].first, Cardinality(DOMAIN st.pages) + 1)

\* first, next, ..., last: the walk ends at the page named by last, meets no
\* page twice and is nondecreasing in end time
StoredOrdered(st) ==
    LET w == StoredPages(st)
    IN  /\ w # << >>
        /\ st.coll[1].last = Ref(w[Len(w)])
        /\ \A i, j \in DOMAIN w : i < j =>
               /\ w[i] # w[j]
               /\ EndTimeOfDic(st.pages[w[i]]) <= EndTimeOfDic(st.pages[w[j]])

\* The first activity of the page named by the stored collection's last
LastFirstActivity(st) ==
    st.pages[st.coll[1].last.v].orderedItems[1]

\* ------------------------------------------------------------ properties
DistinctEndTimes(pgs) ==
    \A p, q \in DOMAIN pgs :
        p # q => EndTimeOfDic(pgs[p].dic) # EndTimeOfDic(pgs[q].dic)

\* Only add calls with fresh pages have acted on the collection object.
OnlyAdds == ~restored /\ removed = {}

\* C1: after N adds of fresh pages with pairwise distinct end times, arriving
\* in any order, on an initially empty collection, the walk from first via
\* next visits every inserted page exactly once in nondecreasing end-time
\* order and ends at last, and totalItems is N.
C1_OrderInvariant ==
    (OnlyAdds /\ Pending = {} /\ DistinctEndTimes(pages)) =>
        /\ ~err
        /\ LET w == FwdWalk(col, pages)
           IN  /\ Range(w) = added
               /\ NoDup(w)
               /\ NonDecreasing(pages, w)
               /\ w # << >> => col.last = Obj(w[Len(w)])
        /\ col.dic.totalItems = Cardinality(added)
        /\ col.total_items = Cardinality(added)

\* C2: after any sequence of add and remove calls (distinct end times,
\* remove only of a page in the collection) the forward walk visits exactly
\* totalItems pages and ends at last, and the backward walk from last
\* reaches first, visiting the same pages in reverse order.
C2_WalksAgree ==
    (~restored /\ DistinctEndTimes(pages)) =>
        /\ ~err
        /\ LET w == FwdWalk(col, pages)
           IN  /\ Len(w) = col.dic.totalItems
               /\ w # << >> => col.last = Obj(w[Len(w)])
               /\ BwdWalk(col, pages) = Reverse(w)

\* The last operation was add of page lastop.o
Added == lastop.op = "add"

\* C3: restore_from_json on a fresh collection object, given the records of
\* a well-formed collection built by add in any order, yields the same
\* first, last, first-to-last page order and totalItems.
C3_RestoreRoundTrip ==
    (/\ lastop.op = "restore"
     /\ ~pre.restored
     /\ DistinctEndTimes(pre.pages)
     /\ WellFormed(pre.col, pre.pages)) =>
        /\ ~err
        /\ col.first = pre.col.first
        /\ col.last = pre.col.last
        /\ FwdWalk(col, pages) = FwdWalk(pre.col, pre.pages)
        /\ col.total_items = pre.col.total_items
        /\ col.dic.totalItems = pre.col.dic.totalItems

\* The collection before the last operation held exactly two pages a, c
\* linked a then c, with end times 1 and 3.
HeldAC(a, c) ==
    /\ pre.col.total_items = 2
    /\ pre.col.first = Obj(a) /\ pre.col.last = Obj(c)
    /\ a # c
    /\ pre.pages[a].next = Obj(c) /\ pre.pages[c].prev = Obj(a)
    /\ pre.pages[a].prev = None /\ pre.pages[c].next = None
    /\ EndTimeOfDic(pre.pages[a].dic) = 1
    /\ EndTimeOfDic(pre.pages[c].dic) = 3

\* C7: add of a fresh page B (end time 2) to a collection holding A (end
\* time 1) and C (end time 3) gives first = A, last = C, A.next = B,
\* B.prev = A, B.next = C, C.prev = B and totalItems = 3.
C7_InsertBetween ==
    \A a, c \in DOMAIN pre.pages :
        (Added /\ HeldAC(a, c) /\ EndTime(Heap, lastop.o) = 2) =>
            /\ ~err
            /\ col.first = Obj(a) /\ col.last = Obj(c)
            /\ pages[a].next = Obj(lastop.o)
            /\ pages[lastop.o].prev = Obj(a)
            /\ pages[lastop.o].next = Obj(c)
            /\ pages[c].prev = Obj(lastop.o)
            /\ col.dic.totalItems = 3

\* The page added last ends earlier than every page of the well-formed,
\* non-empty collection it was added to.
AddedEarliest ==
    /\ Added
    /\ pre.col.total_items >= 1
    /\ WellFormed(pre.col, pre.pages)
    /\ \A q \in Range(FwdWalk(pre.col, pre.pages)) :
           EndTime(Heap, lastop.o) < EndTimeOfDic(pre.pages[q].dic)

\* C8: add of a fresh page earlier than every page of a well-formed
\* collection makes it the new first, linked before the old first, with no
\* prev of its own; last is unchanged and totalItems grows by one.
C8_InsertBeforeFirst ==
    AddedEarliest =>
        /\ ~err
        /\ col.first = Obj(lastop.o)
        /\ pages[lastop.o].next = pre.col.first
        /\ pages[lastop.o].dic.next = Ref(pre.pages[pre.col.first.v].dic.id)
        /\ pages[pre.col.first.v].prev = Obj(lastop.o)
        /\ pages[pre.col.first.v].dic.prev = Ref(pages[lastop.o].dic.id)
        /\ pages[lastop.o].prev = None
        /\ pages[lastop.o].dic.prev = Absent
        /\ col.last = pre.col.last
        /\ col.total_items = pre.col.total_items + 1
        /\ col.dic.totalItems = pre.col.dic.totalItems + 1

C8_Witness ==
    /\ AddedEarliest
    /\ pre.col.total_items >= 2
    /\ col.first = Obj(lastop.o)

\* C9: after exactly one add on an empty collection first and last name the
\* added page, totalItems is 1 and the page has neither prev nor next.
C9_SinglePage ==
    (Added /\ pre.col.total_items = 0) =>
        /\ ~err
        /\ col.first = Obj(lastop.o)
        /\ col.last = Obj(lastop.o)
        /\ col.dic.first = Ref(pages[lastop.o].dic.id)
        /\ col.dic.last = Ref(pages[lastop.o].dic.id)
        /\ col.total_items = 1
        /\ col.dic.totalItems = 1
        /\ pages[lastop.o].prev = None /\ pages[lastop.o].next = None
        /\ pages[lastop.o].dic.prev = Absent
        /\ pages[lastop.o].dic.next = Absent

C9_Witness ==
    /\ Added
    /\ pre.col.total_items = 0
    /\ col.dic.totalItems = 1
    /\ store.coll = << col.dic >>

\* The page added last ends strictly later than the page that was last.
AddedLatest ==
    /\ Added
    /\ pre.col.last.k = "obj"
    /\ EndTime(Heap, lastop.o) > EndTimeOfDic(pre.pages[pre.col.last.v].dic)

\* C10: add of a fresh page P strictly later than the current last page L
\* makes P the new last with L.next = P and P.prev = L, leaves first and
\* every other link unchanged and increments totalItems by one.
C10_AppendAtEnd ==
    AddedLatest =>
        LET P == lastop.o
            L == pre.col.last.v
        IN  /\ ~err
            /\ col.last = Obj(P)
            /\ pages[L].next = Obj(P) /\ pages[L].dic.next = Ref(pages[P].dic.id)
            /\ pages[P].prev = Obj(L) /\ pages[P].dic.prev = Ref(pages[L].dic.id)
            /\ pages[P].next = None /\ pages[P].dic.next = Absent
            /\ pages[L].prev = pre.pages[L].prev
            /\ pages[L].dic.prev = pre.pages[L].dic.prev
            /\ col.first = pre.col.first
            /\ \A q \in DOMAIN pre.pages \ {P, L} : pages[q] = pre.pages[q]
            /\ col.total_items = pre.col.total_items + 1
            /\ col.dic.totalItems = pre.col.dic.totalItems + 1

C10_Witness ==
    /\ AddedLatest
    /\ pre.col.total_items >= 2
    /\ col.last = Obj(lastop.o)

\* The stored collection's last names a stored page that holds activity a
LastPageHolds(st, a) ==
    /\ st.coll # << >>
    /\ st.coll[1].last.k = "ref"
    /\ st.coll[1].last.v \in DOMAIN st.pages
    /\ \E i \in DOMAIN st.pages[st.coll[1].last.v].orderedItems :
           st.pages[st.coll[1].last.v].orderedItems[i] = a

\* Both requests in flight have committed
BothCommitted == proc # << >> /\ \A p \in Procs : proc[p].pc = "done"

\* C4: two stream updates running concurrently never lose an update: in
\* every interleaving of their load, reconstruct, insert and persist steps,
\* once both have committed, the stored totalItems counts both new pages
\* (it equals the number of pages ever created, which is the clock) and
\* both new pages are reached from first via next.
C4_NoLostUpdate ==
    BothCommitted =>
        /\ store.coll # << >>
        /\ store.coll[1].totalItems = clock
        /\ \A p \in Procs : proc[p].page \in Range(StoredPages(store))

\* The most recent request that called for an activity was answered
\* without error
LastServed == log # << >> /\ log[Len(log)].status = 200

\* C5: after any series of activity-generating requests served one after
\* the other, each stamped later than the one before, and for every order
\* in which the page query answers, the stored stream is nondecreasing in
\* end time along first, next, ..., last, and the page named by last holds
\* the activity of the most recent of them.
C5_StreamOrdered ==
    LastServed =>
        /\ StoredOrdered(store)
        /\ LastPageHolds(store, Activity(log[Len(log)].type, Len(log),
                                         log[Len(log)].d, 0))

\* The requests that called for an activity so far were, in this order,
\* those of ops, all on document d
Logged(ops, d) ==
    /\ Len(log) = Len(ops)
    /\ \A i \in DOMAIN ops : log[i].op = ops[i] /\ log[i].d = d

\* The stored stream has n pages and the first activity of the page named
\* by last is of the given type, for document d
StreamShows(n, type, d) ==
    /\ store.coll # << >>
    /\ store.coll[1].totalItems = n
    /\ Cardinality(DOMAIN store.pages) = n
    /\ store.coll[1].last.k = "ref"
    /\ LastFirstActivity(store).type = type
    /\ LastFirstActivity(store).object = d

\* Document d is stored as JSON-LD of an activity-generating type and is
\* listed
ListedLd(d) ==
    /\ Live(d)
    /\ docs[d].is_json_ld
    /\ docs[d].tc \in AsTypes
    /\ ~docs[d].unlisted

Without(s, x) == SelectSeq(s, LAMBDA y : y # x)

\* The last operation was remove of page lastop.o, a page of the well-formed
\* collection it was applied to.
RemovedFromWellFormed ==
    /\ lastop.op = "remove"
    /\ WellFormed(pre.col, pre.pages)
    /\ lastop.o \in Range(FwdWalk(pre.col, pre.pages))

\* C11: remove(p) on a well-formed collection containing p decrements
\* totalItems by one, clears p's partOf, prev and next and leaves the other
\* pages linked in their previous order: the sole page leaves first and last
\* empty and totalItems 0, an interior page leaves its former prev and next
\* linked to each other, the first or last page makes its neighbour the new
\* first or last.
C11_Remove ==
    RemovedFromWellFormed =>
        LET p == lastop.o
            w == FwdWalk(pre.col, pre.pages)
            pv == pre.pages[p].prev
            nx == pre.pages[p].next
        IN  /\ ~err
            /\ col.total_items = pre.col.total_items - 1
            /\ col.dic.totalItems = pre.col.dic.totalItems - 1
            /\ store.coll = << col.dic >>
            /\ pages[p].part_of = None /\ pages[p].dic.partOf = Null
            /\ pages[p].prev = None /\ ~DicTruthy(pages[p].dic.prev)
            /\ pages[p].next = None /\ ~DicTruthy(pages[p].dic.next)
            /\ store.pages[p] = pages[p].dic
            /\ FwdWalk(col, pages) = Without(w, p)
            /\ WellLinked(col, pages)
            /\ Len(w) = 1 =>
                   /\ col.first = None /\ col.last = None
                   /\ col.dic.first = Null /\ col.dic.last = Null
                   /\ col.dic.totalItems = 0
            /\ (pv.k = "obj" /\ nx.k = "obj") =>
                   /\ pages[pv.v].next = nx /\ pages[nx.v].prev = pv
                   /\ pages[pv.v].dic.next = Ref(nx.v)
                   /\ pages[nx.v].dic.prev = Ref(pv.v)
            /\ (Len(w) > 1 /\ p = w[1]) =>
                   col.first = Obj(w[2]) /\ col.dic.first = Ref(w[2])
            /\ (Len(w) > 1 /\ p = w[Len(w)]) =>
                   /\ col.last = Obj(w[Len(w) - 1])
                   /\ col.dic.last = Ref(w[Len(w) - 1])

\* an interior page of a collection of three pages was removed
C11_Witness ==
    /\ RemovedFromWellFormed
    /\ pre.col.total_items = 3
    /\ pre.pages[lastop.o].prev.k = "obj"
    /\ pre.pages[lastop.o].next.k = "obj"
    /\ col.total_items = 2

\* The backward scan of the last add moved past a page onto an absent prev
\* (cur = cur.prev left cur None)
FellOff == steps >= 1 /\ cursor = None

\* C12: if add's backward scan moves past the first page without finding a
\* position (the cursor's prev is absent), add does not return normally but
\* raises to its caller, and the stored collection record does not count
\* the page that was not linked: it was not written by this add.
C12_FallOffRaises ==
    FellOff =>
        /\ err
        /\ store.coll # << >>
        /\ store.coll[1].totalItems = col.total_items - 1
        /\ store.coll[1].totalItems = col.dic.totalItems

\* reached when restore_from_json adds a page that names a prev and does not
\* end after the first page
C12_Witness == FellOff /\ err /\ lastop.op = "restore"

\* Some record among those given names, as prev or next, a page that is not
\* among them
Dangling(st, given) ==
    \E o \in Range(given) :
        \/ st.pages[o].prev.k = "ref" /\ st.pages[o].prev.v \notin Range(given)
        \/ st.pages[o].next.k = "ref" /\ st.pages[o].next.v \notin Range(given)

\* C13: restore_from_json, given page records of which one names a prev or
\* next that is not among them, fails as a whole with an error, leaves no
\* partially linked collection and writes nothing to the store.
C13_DanglingFails ==
    (lastop.op = "restore_some" /\ Dangling(pre.store, lastop.order)) =>
        /\ err
        /\ store = pre.store

\* C14: add of a page whose id is the id of a page already in the
\* collection is rejected with an error, and the page objects, the stored
\* records, all links and totalItems are as before.
C14_DuplicateRejected ==
    lastop.op = "add_again" =>
        /\ err
        /\ pages = pre.pages
        /\ store = pre.store
        /\ col.total_items = pre.col.total_items
        /\ col.dic = pre.col.dic

C16_NoOpUnlessQualifying ==
    [][(/\ Len(log') > Len(log)
        /\ log'[Len(log')].type \in {"Create", "Update"})
       => LET d == log'[Len(log')].d
          IN  /\ ServeAs
              /\ d \in DOMAIN docs'
              /\ (IF docs'[d].is_json_ld THEN {docs'[d].tc} ELSE {})
                     \cap AsTypes # {}]_vars

\* Some stored page holds a Create whose object, or a Reference or Offer
\* whose origin, is document d.
References(st, d) ==
    \E o \in DOMAIN st.pages :
        \E i \in DOMAIN st.pages[o].orderedItems :
            LET a == st.pages[o].orderedItems[i]
            IN  \/ a.type = "Create" /\ a.object = d
                \/ a.type \in {"Reference", "Offer"} /\ a.origin = d

\* C17: a DELETE of a document calls for a Delete activity only if the
\* stored stream references that document, that is, is_in_actstr answers
\* true exactly for the ids some stored Create, Reference or Offer names.
C17_DeleteOnlyIfReferenced ==
    [][(Len(log') > Len(log) /\ log'[Len(log')].op = "DELETE")
       => References(store, log'[Len(log')].d)]_vars

\* totalItems of the stored collection, 0 while there is none
StoredTotal(st) == IF st.coll = << >> THEN 0 ELSE st.coll[1].totalItems

\* C18: with the stream served, a status PATCH that turns a document from
\* unlisted to listed appends exactly one page whose first activity is a
\* Create for the document, one that turns it from listed to unlisted
\* appends exactly one page holding a Delete for it (totalItems grows by one
\* each time, and the flag is changed), and a request that calls for no
\* activity, such as a PATCH to the value the flag has, appends nothing.
C18_PatchAppends ==
    [][/\ (Len(log') > Len(log) /\ log'[Len(log')].op = "PATCH") =>
             LET e == log'[Len(log')]
                 new == DOMAIN store'.pages \ DOMAIN store.pages
             IN  /\ StoredTotal(store') = StoredTotal(store) + 1
                 /\ Cardinality(new) = 1
                 /\ \A o \in new :
                        /\ store'.pages[o].orderedItems # << >>
                        /\ store'.pages[o].orderedItems[1].type = e.type
                        /\ store'.pages[o].orderedItems[1].object = e.d
                 /\ docs'[e.d].unlisted = (e.type = "Delete")
       /\ (Len(log') = Len(log) => store' = store)]_vars


\* C19: a POST or PUT of an unlisted document, whatever its type and access
\* token, never calls for an activity: the store changes only in requests
\* that are logged, no logged POST or PUT is for an unlisted document, and
\* while nothing is logged (only such documents were written) there is no
\* stored collection, so GET of the stream answers not-found.
C19_UnlistedSilent ==
    [][/\ (store' # store => Len(log') > Len(log))
       /\ (Len(log') > Len(log) /\ log'[Len(log')].op \in {"POST", "PUT"})
              => ~docs'[log'[Len(log')].d].unlisted
       /\ (log' = << >> => store'.coll = << >>)]_vars

\* an unlisted JSON-LD document of an activity generating type was POSTed
\* with an access token, and there is no stored collection
C19_Witness ==
    /\ store.coll = << >>
    /\ \E d \in DOMAIN docs :
           /\ Live(d)
           /\ docs[d].unlisted
           /\ docs[d].is_json_ld
           /\ docs[d].tc \in AsTypes
           /\ docs[d].token # 0

\* A request has emitted an activity: its stream update was committed.
Emitted(lg) == \E i \in DOMAIN lg : lg[i].status = 200

\* GET of the stream answers not-found before the first activity and the
\* stored collection after it.
GetAnswers(lg, st) ==
    IF Emitted(lg)
    THEN /\ ActivityStreamCollection(st).status = 200
         /\ ActivityStreamCollection(st).body = st.coll
         /\ st.coll[1].totalItems >= 1
    ELSE ActivityStreamCollection(st).status = 404

\* C20: GET of the stream collection answers not-found in every state
\* before the first activity was emitted and the stored collection in every
\* state after, and no operation (document requests, DELETE of the
\* collection record, garbage collection) removes the collection record.
C20_StreamStays ==
    [][/\ GetAnswers(log, store)
       /\ GetAnswers(log', store')
       /\ (store.coll # << >> => store'.coll # << >>)]_vars

\* the stream exists, its one announced document is gone without a DELETE
\* request (garbage collection deleted it), and GET answers the collection
C20_Witness ==
    /\ Emitted(log)
    /\ ActivityStreamCollection(store).status = 200
    /\ \E d \in DOMAIN docs : docs[d] = Gone /\ log[Len(log)].d = d
    /\ \A i \in DOMAIN log : log[i].op # "DELETE"

\* C21: no request and no garbage collection run deletes a stored stream
\* page or replaces its content (its id and its activities stay; only the
\* links are rewritten), remove is never called, and the stored collection's
\* totalItems never decreases.
C21_PagesStay ==
    [][/\ DOMAIN store.pages \subseteq DOMAIN store'.pages
       /\ \A o \in DOMAIN store.pages :
              /\ store'.pages[o].id = store.pages[o].id
              /\ store'.pages[o].orderedItems = store.pages[o].orderedItems
       /\ StoredTotal(store') >= StoredTotal(store)
       /\ removed' = {}]_vars

\* two stored pages, the record of the first rewritten with its link to the
\* second
C21_Witness ==
    /\ StoredTotal(store) = 2
    /\ Cardinality(DOMAIN store.pages) = 2
    /\ \E o \in DOMAIN store.pages :
           /\ store.coll[1].first = Ref(o)
           /\ store.pages[o].next.k = "ref"
           /\ store.pages[o].next.v # o

WroteUnprotected ==
    /\ log # << >>
    /\ log[1].op \in {"POST", "PUT"}
    /\ docs[log[1].d].token = NoToken

\* C23 as stated: for a document stored without access token, GET after the
\* POST yields the posted JSON and GET after a PUT the JSON of that PUT;
\* after the DELETE the row is gone and GET answers 404.
C23_RoundTrip ==
    /\ WroteUnprotected =>
           HandleGetRequest(log[1].d) = [status |-> 200, json |-> log[1].json]
    /\ (log # << >> /\ log[1].op = "DELETE") =>
           /\ ~docs[log[1].d].live
           /\ HandleGetRequest(log[1].d).status = 404

\* C23 amended: GET yields the JSON of the POST or of the latest PUT, for a
\* JSON-LD document of a rewritten type with the root '@id' replaced by the
\* document's location and, for a Curation, the '@id' of the i-th selection
\* by <location>/range<i>; any other document is returned as it was sent.
C23_RoundTripRewritten ==
    /\ WroteUnprotected =>
           LET d == log[1].d
               sent == log[1].json
               got == HandleGetRequest(d)
               rew == docs[d].is_json_ld /\ docs[d].tc \in IdTypes
           IN  /\ got.status = 200
               /\ got.json.body = sent.body
               /\ got.json.selk = sent.selk
               /\ DOMAIN got.json.sel = DOMAIN sent.sel
               /\ \A i \in DOMAIN sent.sel :
                      /\ got.json.sel[i].label = sent.sel[i].label
                      /\ got.json.sel[i].id =
                             IF rew /\ docs[d].tc = CurType THEN i
                             ELSE sent.sel[i].id
               /\ got.json.id = IF rew THEN Location(d) ELSE sent.id
    /\ (log # << >> /\ log[1].op = "DELETE") =>
           /\ ~docs[log[1].d].live
           /\ HandleGetRequest(log[1].d).status = 404

\* a PUT replaced the JSON of a JSON-LD Curation with selections that was
\* stored without access token
C23_Witness ==
    /\ WroteUnprotected
    /\ log[1].op = "PUT"
    /\ docs[log[1].d].is_json_ld
    /\ docs[log[1].d].tc = CurType
    /\ Len(docs[log[1].d].json.sel) = MaxSel

C25_StoredIsCurrent ==
    ~err =>
        /\ \A o \in DOMAIN pages :
               /\ o \in DOMAIN store.pages
               /\ store.pages[o] = pages[o].dic
        /\ lastop.op \in {"add", "remove", "restore"} =>
               store.coll = << col.dic >>

\* a collection of three pages from which one was removed: the records of
\* the removed page, of its neighbour and of the collection were rewritten
C25_Witness ==
    /\ ~err
    /\ lastop.op = "remove"
    /\ col.total_items = 2
    /\ Cardinality(DOMAIN store.pages) = 3
    /\ store.pages[lastop.o].partOf = Null
    /\ store.coll[1].totalItems = 2

\* The heap with nothing stored yet.
Unstored == [Heap EXCEPT !.store = EmptyStore]

C27_LinksAbsentOrRef ==
    \A o \in DOMAIN store.pages :
        /\ store.pages[o].prev.k \in {"absent", "ref"}
        /\ store.pages[o].next.k \in {"absent", "ref"}

\* The orderedItems of the page objects and of the page records of heap H
\* are those of heap G, on all pages of G but page o (a restore builds new
\* page objects, and fewer of them when it raises)
SameItems(G, H, o) ==
    /\ \A q \in (DOMAIN G.pages \cap DOMAIN H.pages) \ {o} :
           H.pages[q].dic.orderedItems = G.pages[q].dic.orderedItems
    /\ \A q \in DOMAIN G.store.pages \ {o} :
           /\ q \in DOMAIN H.store.pages
           /\ H.store.pages[q].orderedItems = G.store.pages[q].orderedItems

\* C28: activities are never changed or moved once appended.  Every
\* operation on existing pages (collection add and remove with the setting
\* and clearing of partOf, prev and next, and the restore from the records)
\* leaves the orderedItems of every page object and page record as they
\* were; the page objects a restore builds hold the items of their records;
\* adding an activity to any page keeps the page's items as a prefix, puts
\* the activity last and touches no other page; and no activity is held by
\* two pages or twice by one.
C28_ActivitiesStay ==
    [][/\ SameItems(Heap, [pages |-> pages', store |-> store'], 0)
       /\ lastop'.op = "restore" /\ ~err' =>
              \A o \in DOMAIN pages' :
                  pages'[o].dic.orderedItems = store.pages[o].orderedItems
       /\ \A o \in DOMAIN pages', t \in Times :
              LET G == [Heap EXCEPT !.pages = pages', !.store = store']
                  act == Activity("Update", t, o, 0)
                  old == G.pages[o].dic.orderedItems
                  new == PageAdd(G, o, act).pages[o].dic.orderedItems
              IN  /\ new = Append(old, act)
                  /\ SubSeq(new, 1, Len(old)) = old
                  /\ PageAdd(G, o, act).store.pages[o].orderedItems = new
                  /\ SameItems(G, PageAdd(G, o, act), o)
       /\ \A o, q \in DOMAIN store'.pages :
              \A i \in DOMAIN store'.pages[o].orderedItems,
                 j \in DOMAIN store'.pages[q].orderedItems :
                  store'.pages[o].orderedItems[i] =
                      store'.pages[q].orderedItems[j] => o = q /\ i = j]_vars

\* pages with their activities went through collection add, a restore and a
\* removal, and their records still hold an activity each
C28_Witness ==
    /\ ~err
    /\ restored
    /\ lastop.op = "remove"
    /\ Cardinality(DOMAIN store.pages) >= 2
    /\ \A o \in DOMAIN store.pages :
           /\ Len(store.pages[o].orderedItems) = 1
           /\ pages[o].dic.orderedItems = store.pages[o].orderedItems

\* C29: GET <location>/range<n> of a stored Curation answers its n-th
\* selection counting from 1 (whose rewritten '@id' is <location>/range<n>)
\* for 1 <= n <= number of selections, and not-found for every other n,
\* n = 0 included.
C29_NthRange ==
    \A d \in DOMAIN docs : \A n \in -1..(MaxSel + 1) :
        docs[d].live /\ docs[d].json.selk =>
            LET sel == docs[d].json.sel
                r == ApiJsonIdRange(d, n)
            IN  IF 1 <= n /\ n <= Len(sel)
                THEN /\ r.status = 200
                     /\ r.range = sel[n]
                     /\ docs[d].is_json_ld /\ docs[d].tc \in IdTypes =>
                            r.range.id = n
                ELSE r.status = 404

\* C30: a garbage-collection run deletes exactly the documents with the
\* empty access token whose last modification (updated_at if set, else
\* created_at) is older than the configured age; documents stored with an
\* access token and the stream's collection and page records are never
\* deleted by it, and no row it keeps is changed.
C30_GarbageExact ==
    [][(log' # << >> /\ log'[1].op = "GC" /\ clock' = clock) =>
           /\ DOMAIN docs' = DOMAIN docs
           /\ \A d \in DOMAIN docs :
                  LET r == docs[d]
                      modified == IF r.updated_at.k = "time"
                                  THEN r.updated_at.v ELSE r.created_at
                      old == clock - modified > GarbageCollectionAge
                  IN  /\ docs'[d].live <=>
                             (r.live /\ ~(r.token = NoToken /\ old))
                      /\ docs'[d].live => docs'[d] = r
           /\ store' = store]_vars

\* after a run: a document was deleted, a document without token that was
\* created long ago and updated lately is kept, and so is the stream
C30_Witness ==
    /\ log # << >> /\ log[1].op = "GC"
    /\ \E d \in DOMAIN docs : ~docs[d].live
    /\ \E d \in DOMAIN docs :
           /\ docs[d].live
           /\ docs[d].token = NoToken
           /\ clock - docs[d].created_at > GarbageCollectionAge
           /\ docs[d].updated_at.k = "time"
    /\ store.coll # << >>

\* C31: an accepted PUT on a stored document changes only the row's JSON:
\* the access token, the unlisted flag, the JSON-LD flag and the type of the
\* row stay as the POST set them, whatever token and Content-Type the
\* request carries; the JSON stored is the one the row's own JSON-LD flag
\* calls for, and no other row changes.
C31_PutKeepsMetadata ==
    [][(log' # << >> /\ log'[1].op = "PUT") =>
           LET d == log'[1].d
           IN  /\ DOMAIN docs' = DOMAIN docs
               /\ \A e \in DOMAIN docs \ {d} : docs'[e] = docs[e]
               /\ docs'[d].live = docs[d].live
               /\ docs'[d].token = docs[d].token
               /\ docs'[d].unlisted = docs[d].unlisted
               /\ docs'[d].is_json_ld = docs[d].is_json_ld
               /\ docs'[d].tc = docs[d].tc
               /\ docs'[d].json =
                      StoredJson(log'[1].json, d, docs[d].is_json_ld,
                                 docs[d].tc)]_vars

\* a PUT with a token and with Content-Type application/ld+json was accepted
\* on an unlisted plain-JSON document stored without token, whose row still
\* has no token and is no JSON-LD
C31_Witness ==
    /\ log # << >>
    /\ log[1].op = "PUT"
    /\ log[1].tok # NoToken
    /\ log[1].ld
    /\ docs[log[1].d].token = NoToken
    /\ docs[log[1].d].unlisted
    /\ ~docs[log[1].d].is_json_ld
    /\ docs[log[1].d].json = log[1].json

\* Document d is stored, is unlisted, and no status PATCH has changed its
\* flag (each change is logged with status 200): it has been unlisted ever
\* since its creation.
AlwaysUnlisted(d) ==
    /\ docs[d].live
    /\ docs[d].unlisted
    /\ \A i \in DOMAIN log :
           ~(log[i].d = d /\ log[i].op = "PATCH" /\ log[i].status = 200)

\* Some stored activity names document d as its object or its origin.
Mentions(st, d) ==
    \E o \in DOMAIN st.pages :
        \E i \in DOMAIN st.pages[o].orderedItems :
            \/ st.pages[o].orderedItems[i].object = d
            \/ st.pages[o].orderedItems[i].origin = d

\* C32: the id of a document that has been unlisted ever since its creation
\* is in no activity of the stored stream: not after the POST that creates
\* it unlisted, and not after any PUT, status PATCH to the same value or
\* DELETE on it (a step that leaves it unlisted or deletes it).
C32_UnlistedNeverNamed ==
    [][/\ \A d \in DOMAIN docs' \ DOMAIN docs :
              docs'[d].unlisted => ~Mentions(store', d)
       /\ \A d \in DOMAIN docs :
              (AlwaysUnlisted(d) /\ (docs'[d].unlisted \/ ~docs'[d].live))
                  => ~Mentions(store', d)]_vars

\* C33: on the walk of the stored stream from first to last, every Update
\* or Delete activity for a document comes after a Create activity for the
\* same document (on an earlier page, or earlier on its own page).
C33_CreateComesFirst ==
    LET w == StoredPages(store)
    IN  \A j \in DOMAIN w :
            \A k \in DOMAIN store.pages[w[j]].orderedItems :
                LET a == store.pages[w[j]].orderedItems[k]
                IN  a.type \in {"Update", "Delete"} =>
                        \E i \in 1..j :
                            \E m \in DOMAIN store.pages[w[i]].orderedItems :
                                /\ i < j \/ m < k
                                /\ store.pages[w[i]].orderedItems[m].type
                                       = "Create"
                                /\ store.pages[w[i]].orderedItems[m].object
                                       = a.object

\* C34: in a sequential execution, after every committed stream update the
\* stored collection record's totalItems is the number of stored page
\* records, and its first and last each name a stored page record.
C34_CollectionCountsPages ==
    store.coll # << >> =>
        /\ store.coll[1].totalItems = Cardinality(DOMAIN store.pages)
        /\ store.coll[1].first.k = "ref"
        /\ store.coll[1].first.v \in DOMAIN store.pages
        /\ store.coll[1].last.k = "ref"
        /\ store.coll[1].last.v \in DOMAIN store.pages

\* three stream updates were committed one after the other, the last one
\* with the collection restored from the records of the first two
C34_Witness ==
    /\ Cardinality({i \in DOMAIN log : log[i].status = 200}) >= 3
    /\ log[Len(log)].status = 200
    /\ store.coll # << >>
    /\ store.coll[1].totalItems = 3
    /\ Cardinality(DOMAIN store.pages) = 3

\* C35: the id-to-page index of the collection holds exactly the pages that
\* are linked into it now: get_page_by_id answers a page for the id of every
\* page added and not removed, and none for the id of a removed page.
C35_IndexIsCurrent ==
    ~err =>
        \A o \in DOMAIN pages :
            (GetPageById(Heap, pages[o].dic.id) # None) <=>
                o \in added \ removed

\* The prev chain from last reaches first (an empty collection has neither).
ChainReachesFirst(c, pgs) ==
    \/ c.total_items = 0 /\ c.first = None /\ c.last = None
    \/ /\ c.first.k = "obj"
       /\ c.last.k = "obj"
       /\ c.first.v \in Range(BwdWalk(c, pgs))

\* The add that gave heap R returned or raised after at most totalItems
\* comparisons; a scan that makes more comparisons than there are pages,
\* still on a page, is in a cycle of prev links and never ends.
ScanEnded(R) ==
    /\ R.steps <= R.col.total_items
    /\ ~(R.err /\ R.cursor.k = "obj")

\* C36: every add on a collection whose prev chain from last reaches first
\* ends: the backward scan makes at most totalItems comparisons and then
\* links the page or stops with an error, and never runs forever.  This for
\* the add of a fresh page, and for each add of a page restored from its
\* record that restore_from_json makes, in every order of the records.
C36_AddTerminates ==
    /\ (lastop.op = "add" /\ ChainReachesFirst(pre.col, pre.pages)) =>
           ScanEnded(Heap)
    /\ store.coll # << >> =>
           \A order \in PageDocOrders(store) : \A k \in 1..Len(order) :
               LET H == RestoreFromJson(store, SubSeq(order, 1, k - 1))
                   o == order[k]
                   H1 == [H EXCEPT !.pages =
                             @ @@ (o :> FromJson(H.store.pages[o]))]
               IN  (~H.err /\ ChainReachesFirst(H.col, H.pages)) =>
                       ScanEnded(ColAdd(H1, o))

\* a fresh page was added to a collection of two linked pages after a scan
\* of two comparisons
C36_Witness ==
    /\ lastop.op = "add"
    /\ ~err
    /\ pre.col.total_items = 2
    /\ ChainReachesFirst(pre.col, pre.pages)
    /\ steps = 2
    /\ col.total_items = 3

\* C37: after any sequence of adds of fresh pages on an initially empty
\* collection, pages with equal end times included, the collection is
\* well-formed: the walk from first via next meets every added page exactly
\* once, ends at last and is nondecreasing in end time, and totalItems is
\* the number of pages added.
C37_EqualTimesWellFormed ==
    (OnlyAdds /\ Pending = {}) =>
        /\ ~err
        /\ LET w == FwdWalk(col, pages)
           IN  /\ Range(w) = added
               /\ NoDup(w)
               /\ NonDecreasing(pages, w)
               /\ w # << >> => col.last = Obj(w[Len(w)])
        /\ col.dic.totalItems = Cardinality(added)
        /\ col.total_items = Cardinality(added)

====
